---- MODULE Spec2Model ----
(***************************************************************************)
(* Model of optimize_images.py: a batch job that backs up every raster     *)
(* image under ROOT, converts it to WebP, deletes the original and then    *)
(* rewrites quoted image references in the .html files.                    *)
(*                                                                         *)
(* A path is a record [dirs, stem, suffix] relative to ROOT.  The file     *)
(* system fs is a function from the paths that exist to file contents.     *)
(* Image contents are sequences of numbers (the first one is the format    *)
(* magic), markup contents are sequences of tokens.                        *)
(***************************************************************************)
EXTENDS Integers, Sequences, FiniteSets, TLC

VARIABLES fs, fs0, pc, run, images, i, size_before, size_after,
          total_before, total_after, renamed, dst, failed,
          html_files, j, written, passes

vars == <<fs, fs0, pc, run, images, i, size_before, size_after,
          total_before, total_after, renamed, dst, failed,
          html_files, j, written, passes>>

\* ------------------------------------------------------------ settings
BACKUP_DIR == "backup_images"
IMG_EXTS == {".jpg", ".jpeg", ".png"}
SKIP_DIRS == {BACKUP_DIR, ".git", "node_modules", "__pycache__"}

\* ------------------------------------------------------------ bounds
\* how many times the tool is started on the same tree
MaxRuns == 2
\* longest markup text of the rewrite specification
MaxTextLen == 7

\* ------------------------------------------------------------ paths
P(d, s, x) == [dirs |-> d, stem |-> s, suffix |-> x]

\* str.lower() on the suffixes that occur
Lower(x) ==
  CASE x = ".JPG" -> ".jpg"
    [] x = ".JPEG" -> ".jpeg"
    [] x = ".PNG" -> ".png"
    [] x = ".WEBP" -> ".webp"
    [] x = ".HTML" -> ".html"
    [] OTHER -> x

\* the set of the elements of a sequence
Range(s) == {s[k] : k \in DOMAIN s}

\* path.parts of a relative path: the directories and the file name; a file
\* name equals a string of SKIP_DIRS only when it has no suffix
\* a filter that looks at the first component only
should_skip_first(path) ==
  \/ (path.dirs /= <<>> /\ path.dirs[1] \in SKIP_DIRS)
  \/ (path.dirs = <<>> /\ path.suffix = "" /\ path.stem \in SKIP_DIRS)

should_skip(path) ==
  \/ \E part \in Range(path.dirs) : part \in SKIP_DIRS
  \/ (path.suffix = "" /\ path.stem \in SKIP_DIRS)

\* the files rglob("*") yields that pass the filter of find_images
ImageSet(tree) ==
  {p \in DOMAIN tree : Lower(p.suffix) \in IMG_EXTS /\ ~should_skip(p)}

\* the files rglob("*.html") yields that pass the filter of find_html_files
HtmlSet(tree) ==
  {p \in DOMAIN tree : p.suffix = ".html" /\ ~should_skip(p)}

\* every order in which a directory walk may list a set of files
Orders(S) ==
  {s \in [1..Cardinality(S) -> S] : \A a, b \in DOMAIN s : a /= b => s[a] /= s[b]}

\* ROOT / BACKUP_DIR / rel
BackupPath(src) == P(<<BACKUP_DIR>> \o src.dirs, src.stem, src.suffix)

\* src.with_suffix(".webp")
WebpPath(src) == P(src.dirs, src.stem, ".webp")

\* ------------------------------------------------------------ contents
\* Image bytes: the first number is the format magic (1 JPEG, 2 PNG, 9 WebP,
\* 0 nothing a codec knows), the rest is the payload.
JpegA == <<1, 5, 5>>
JpegB == <<1, 4>>
PngA == <<2, 6, 6>>
Corrupt == <<0, 7>>
StaleBackup == <<1, 8>>

\* Image.open(src) succeeds
Decodable(c) == Len(c) >= 2 /\ c[1] \in {1, 2}

\* the bytes img.save(dst, "WEBP", ...) writes for an image with bytes c
Encode(c) == <<9>> \o Tail(Tail(c))

\* st_size
Size(c) == Len(c)

DQ == "\""
SQ == "'"

Write(tree, p, c) == (p :> c) @@ tree
Remove(tree, p) == [q \in DOMAIN tree \ {p} |-> tree[q]]
Min(S) == CHOOSE x \in S : \A y \in S : x <= y

\* ------------------------------------------------------------ the rewrite
\* A markup text is a sequence of tokens: the two quote characters, the
\* extensions (one token each: a '.' occurs nowhere else, so a match of the
\* character pattern is a match of the token pattern and conversely) and
\* ordinary characters.
IsQuote(c) == c \in {DQ, SQ}

\* one of the alternatives of IMG_EXTS under re.IGNORECASE
IsOldExt(c) == Lower(c) \in IMG_EXTS

\* (["\'])([^"\']+?)(ext)(["\']) tried at position s: the positions e of the
\* extension such that t[s] is a quote, t[s+1..e-1] is a non-empty body
\* without quotes, t[e] is an old extension and t[e+1] is a quote
MatchEnds(t, s) ==
  IF ~IsQuote(t[s]) THEN {}
  ELSE {e \in (s + 2)..(Len(t) - 1) :
          /\ \A k \in (s + 1)..(e - 1) : ~IsQuote(t[k])
          /\ IsOldExt(t[e])
          /\ IsQuote(t[e + 1])}

\* a replacement that leaves out the closing quote, m.group(4)
Replacement_noquote(t, s, e) ==
  <<t[s]>> \o SubSeq(t, s + 1, e - 1) \o <<".webp">>

\* lambda m: m.group(1) + m.group(2) + ".webp" + m.group(4)
Replacement(t, s, e) ==
  <<t[s]>> \o SubSeq(t, s + 1, e - 1) \o <<".webp">> \o <<t[e + 1]>>

\* pattern.sub from position s on: leftmost match, the lazy body takes the
\* least e, the scan resumes after the closing quote of the match
RECURSIVE SubFrom(_, _)
SubFrom(t, s) ==
  IF s > Len(t) THEN <<>>
  ELSE IF MatchEnds(t, s) /= {}
       THEN LET e == Min(MatchEnds(t, s))
            IN  Replacement(t, s, e) \o SubFrom(t, e + 2)
       ELSE <<t[s]>> \o SubFrom(t, s + 1)

Sub(t) == SubFrom(t, 1)

\* ------------------------------------------------------------ the run
Src == images[i]

NoPath == P(<<>>, "", "")
NoMap == [p \in {} |-> p]

\* the locals of main() before the loop starts
FreshLocals ==
  /\ images = <<>>
  /\ i = 0
  /\ size_before = 0
  /\ size_after = 0
  /\ total_before = 0
  /\ total_after = 0
  /\ renamed = NoMap
  /\ dst = NoPath
  /\ failed = {}
  /\ html_files = <<>>
  /\ j = 0
  /\ written = {}

Locals == <<images, i, size_before, size_after, total_before, total_after,
            renamed, dst, failed, html_files, j, written>>

\* the process ends, or starts, and nothing is left of its locals
Forget ==
  /\ images' = <<>>
  /\ i' = 0
  /\ size_before' = 0
  /\ size_after' = 0
  /\ total_before' = 0
  /\ total_after' = 0
  /\ renamed' = NoMap
  /\ dst' = NoPath
  /\ failed' = {}
  /\ html_files' = <<>>
  /\ j' = 0
  /\ written' = {}

\* try: from PIL import Image / except ImportError: raise SystemExit(1)
ImportPIL ==
  /\ pc = "import"
  /\ \E found \in BOOLEAN : pc' = IF found THEN "find" ELSE "exit"
  /\ UNCHANGED <<fs, fs0, run, Locals, passes>>

\* images = find_images(); if not images: return
FindImages ==
  /\ pc = "find"
  /\ \E order \in Orders(ImageSet(fs)) :
       /\ images' = order
       /\ IF order = <<>>
          THEN pc' = "done" /\ i' = 0
          ELSE pc' = "stat" /\ i' = 1
  /\ UNCHANGED <<fs, fs0, run, size_before, size_after, total_before,
                 total_after, renamed, dst, failed, html_files, j, written,
                 passes>>

\* size_before = src.stat().st_size
StatSrc ==
  /\ pc = "stat"
  /\ size_before' = Size(fs[Src])
  /\ pc' = "backup"
  /\ UNCHANGED <<fs, fs0, run, images, i, size_after, total_before,
                 total_after, renamed, dst, failed, html_files, j, written,
                 passes>>

\* a backup that skips the copy whatever is at the destination
BackupBegin_nocopy ==
  /\ pc = "backup"
  /\ pc' = "convert"
  /\ UNCHANGED <<fs, fs0, run, Locals, passes>>

\* backup(src) up to the open of the destination: the copy is skipped when
\* something is at the destination already; otherwise copyfile creates it empty
BackupBegin ==
  /\ pc = "backup"
  /\ IF BackupPath(Src) \in DOMAIN fs
     THEN fs' = fs /\ pc' = "convert"
     ELSE fs' = Write(fs, BackupPath(Src), <<>>) /\ pc' = "copy"
  /\ UNCHANGED <<fs0, run, Locals, passes>>

\* shutil.copy2 writes the next piece of the source to the destination
CopyChunk ==
  /\ pc = "copy"
  /\ LET have == fs[BackupPath(Src)]
         next == Append(have, fs[Src][Len(have) + 1])
     IN  /\ fs' = Write(fs, BackupPath(Src), next)
         /\ pc' = IF next = fs[Src] THEN "convert" ELSE "copy"
  /\ UNCHANGED <<fs0, run, Locals, passes>>

\* the step to the next image, or past the loop
Advance ==
  /\ i' = i + 1
  /\ pc' = IF i < Len(images) THEN "stat" ELSE "html"

\* dst = convert_to_webp(src) returns
ConvertOk ==
  /\ pc = "convert"
  /\ Decodable(fs[Src])
  /\ dst' = WebpPath(Src)
  /\ fs' = Write(fs, WebpPath(Src), Encode(fs[Src]))
  /\ pc' = "stat_dst"
  /\ UNCHANGED <<fs0, run, images, i, size_before, size_after, total_before,
                 total_after, renamed, failed, html_files, j, written,
                 passes>>

\* a handler that leaves the loop (break) where the code continues
ConvertFail_break ==
  /\ pc = "convert"
  /\ failed' = failed \cup {Src}
  /\ i' = i + 1
  /\ pc' = "html"
  /\ UNCHANGED <<fs, fs0, run, images, size_before, size_after, total_before,
                 total_after, renamed, dst, html_files, j, written,
                 passes>>

\* convert_to_webp(src) raises: except Exception: print; continue.  Image.open
\* raises before anything is written; img.save may raise with the
\* destination begun
ConvertFail ==
  /\ pc = "convert"
  /\ \E begun \in BOOLEAN :
       /\ begun => Decodable(fs[Src])
       /\ fs' = IF begun THEN Write(fs, WebpPath(Src), <<9>>) ELSE fs
  /\ failed' = failed \cup {Src}
  /\ Advance
  /\ UNCHANGED <<fs0, run, images, size_before, size_after, total_before,
                 total_after, renamed, dst, html_files, j, written,
                 passes>>

\* size_after = dst.stat().st_size; total_before += ...; total_after += ...
StatDst ==
  /\ pc = "stat_dst"
  /\ size_after' = Size(fs[dst])
  /\ total_before' = total_before + size_before
  /\ total_after' = total_after + Size(fs[dst])
  /\ pc' = "unlink"
  /\ UNCHANGED <<fs, fs0, run, images, i, size_before, renamed, dst, failed,
                 html_files, j, written, passes>>

\* src.unlink()
Unlink ==
  /\ pc = "unlink"
  /\ fs' = Remove(fs, Src)
  /\ pc' = "record"
  /\ UNCHANGED <<fs0, run, Locals, passes>>

\* renamed[rel_src] = rel_dst, and on to the next image
Record ==
  /\ pc = "record"
  /\ renamed' = (Src :> dst) @@ renamed
  /\ Advance
  /\ UNCHANGED <<fs, fs0, run, images, size_before, size_after, total_before,
                 total_after, dst, failed, html_files, j, written,
                 passes>>

\* an I/O call of the loop body outside the try block raises OSError: nothing
\* catches it and the process ends with a traceback
Raise ==
  /\ pc \in {"stat", "backup", "copy", "stat_dst", "unlink"}
  /\ pc' = "aborted"
  /\ Forget
  /\ UNCHANGED <<fs, fs0, run, passes>>

\* html_files = find_html_files(); if html_files and renamed: patch
FindHtml ==
  /\ pc = "html"
  /\ \E order \in Orders(HtmlSet(fs)) :
       /\ html_files' = order
       /\ IF order /= <<>> /\ DOMAIN renamed /= {}
          THEN pc' = "patch" /\ j' = 1
          ELSE pc' = "report" /\ j' = 0
  /\ UNCHANGED <<fs, fs0, run, images, i, size_before, size_after,
                 total_before, total_after, renamed, dst, failed, written,
                 passes>>

\* an iteration that writes the file back without comparing the texts
PatchOne_always ==
  /\ pc = "patch"
  /\ fs' = Write(fs, html_files[j], Sub(fs[html_files[j]]))
  /\ written' = written \cup {html_files[j]}
  /\ j' = j + 1
  /\ pc' = IF j < Len(html_files) THEN "patch" ELSE "report"
  /\ UNCHANGED <<fs0, run, images, i, size_before, size_after, total_before,
                 total_after, renamed, dst, failed, html_files, passes>>

\* one iteration of the loop of patch_html_files
PatchOne ==
  /\ pc = "patch"
  /\ LET html_path == html_files[j]
         old == fs[html_path]
         new_text == Sub(old)
     IN  IF new_text /= old
         THEN fs' = Write(fs, html_path, new_text)
              /\ written' = written \cup {html_path}
         ELSE fs' = fs /\ written' = written
  /\ j' = j + 1
  /\ pc' = IF j < Len(html_files) THEN "patch" ELSE "report"
  /\ UNCHANGED <<fs0, run, images, i, size_before, size_after, total_before,
                 total_after, renamed, dst, failed, html_files, passes>>

\* the final report
Report ==
  /\ pc = "report"
  /\ pc' = "done"
  /\ UNCHANGED <<fs, fs0, run, Locals, passes>>

Running == {"import", "find", "stat", "backup", "copy", "convert", "stat_dst",
            "unlink", "record", "html", "patch", "report"}

\* the process is terminated from outside
Kill ==
  /\ pc \in Running
  /\ pc' = "killed"
  /\ Forget
  /\ UNCHANGED <<fs, fs0, run, passes>>

\* the tool is started again on the tree the last run left
Restart ==
  /\ pc \in {"killed", "aborted", "done", "exit"}
  /\ run < MaxRuns
  /\ run' = run + 1
  /\ pc' = "import"
  /\ Forget
  /\ UNCHANGED <<fs, fs0, passes>>

\* ------------------------------------------------------------ trees
Opt(p, Cs) == {NoMap} \cup {p :> c : c \in Cs}

PageRef == <<"<", DQ, "x", ".JPG", DQ, ">">>
PagePlain == <<"<", "x", ".jpg", ">">>

\* files of the excluded directories, present in every tree
Excluded ==
  (P(<<"node_modules">>, "a", ".jpg") :> JpegA)
  @@ (P(<<"img", ".git">>, "a", ".PNG") :> PngA)
  @@ (P(<<"node_modules">>, "index", ".html") :> PageRef)

Originals ==
  {a @@ b @@ e @@ d :
     a \in {P(<<>>, "a", ".jpg") :> c : c \in {JpegA, Corrupt}},
     b \in Opt(P(<<>>, "a", ".PNG"), {PngA}),
     e \in Opt(P(<<"img">>, "b", ".jpeg"), {JpegB}),
     d \in {NoMap,
             P(<<>>, "index", ".html") :> PageRef,
             (P(<<>>, "index", ".html") :> PageRef)
               @@ (P(<<"img">>, "about", ".html") :> PagePlain)}}

Trees ==
  {o @@ b @@ Excluded :
     o \in Originals,
     b \in Opt(P(<<BACKUP_DIR>>, "a", ".jpg"), {StaleBackup})}

FreshTrees == {o @@ Excluded : o \in Originals}

Init ==
  /\ fs \in Trees
  /\ fs0 = fs
  /\ pc = "import"
  /\ run = 1
  /\ FreshLocals
  /\ passes = <<>>

InitFresh ==
  /\ fs \in FreshTrees
  /\ fs0 = fs
  /\ pc = "import"
  /\ run = 1
  /\ FreshLocals
  /\ passes = <<>>

\* the steps of a run that no error of an I/O call interrupts, with
\* terminations and re-runs
NextNoRaise ==
  \/ ImportPIL
  \/ FindImages
  \/ StatSrc
  \/ BackupBegin
  \/ CopyChunk
  \/ ConvertOk
  \/ ConvertFail
  \/ StatDst
  \/ Unlink
  \/ Record
  \/ FindHtml
  \/ PatchOne
  \/ Report
  \/ Kill
  \/ Restart

Next ==
  \/ NextNoRaise
  \/ Raise

Spec == Init /\ [][Next]_vars

\* runs on trees without a backup tree, ended only by termination from outside
SpecFresh == InitFresh /\ [][NextNoRaise]_vars

\* ------------------------------------------------------------ properties of a run
\* the exclusion set as the specification lists it
ExclusionSet == {"backup_images", ".git", "node_modules", "__pycache__"}

\* the root-relative form of p has a component in the exclusion set
HasExcludedComponent(p) ==
  \/ \E k \in DOMAIN p.dirs : p.dirs[k] \in ExclusionSet
  \/ (p.suffix = "" /\ p.stem \in ExclusionSet)

\* the images of the tree the first run started on
Images0 ==
  {p \in DOMAIN fs0 :
     /\ p.suffix \in {".jpg", ".jpeg", ".png", ".JPG", ".JPEG", ".PNG"}
     /\ ~HasExcludedComponent(p)}

\* the originals the tool has removed
Deleted == {p \in Images0 : p \notin DOMAIN fs}

\* C1: an original that the tool has removed has a file at its mirrored
\* backup path: no reachable state has an original gone and its backup
\* path absent.
C1_DeletedOnlyWithBackup ==
  \A p \in Deleted : BackupPath(p) \in DOMAIN fs

\* C1 witness: an original has been deleted
C1_Witness == Deleted /= {}

\* C2 (as claimed): in the state in which src.unlink() is about to run, the
\* file at the mirrored backup path has exactly the bytes of the original.
C2_BackupIdenticalAtDelete ==
  pc = "unlink" => /\ BackupPath(Src) \in DOMAIN fs
                   /\ fs[BackupPath(Src)] = fs[Src]

\* C3 (as claimed): whatever terminations and re-runs happen, every image of
\* the initial tree has its complete original bytes at its original path or
\* at its mirrored backup path.
C3_NoDataLoss ==
  \A p \in Images0 :
    \/ (p \in DOMAIN fs /\ fs[p] = fs0[p])
    \/ (BackupPath(p) \in DOMAIN fs /\ fs[BackupPath(p)] = fs0[p])

\* the images whose iteration of the loop is over
Completed == {images[k] : k \in {n \in DOMAIN images : n < i}}

RECURSIVE SumBefore(_)
SumBefore(S) ==
  IF S = {} THEN 0
  ELSE LET p == CHOOSE q \in S : TRUE
       IN  Len(fs0[p]) + SumBefore(S \ {p})

RECURSIVE SumAfter(_)
SumAfter(S) ==
  IF S = {} THEN 0
  ELSE LET p == CHOOSE q \in S : TRUE
       IN  (Len(fs0[p]) - 1) + SumAfter(S \ {p})

\* C4: an image whose transcode failed is behind the loop index (the run
\* went on), is still at its original path with its bytes, has a backup, is
\* no key of the rename map; between iterations the rename map holds exactly
\* the completed images that did not fail, each of them backed up, converted
\* and deleted, and the totals are the sums of their sizes; after the loop
\* that is every enumerated image that did not fail.
C4_FailureIsolation ==
  /\ \A k \in DOMAIN images :
       images[k] \in failed =>
         /\ i > k
         /\ images[k] \in DOMAIN fs
         /\ fs[images[k]] = fs0[images[k]]
         /\ BackupPath(images[k]) \in DOMAIN fs
         /\ images[k] \notin DOMAIN renamed
  /\ pc \in {"stat", "backup", "copy", "convert", "html", "patch", "report", "done"} =>
       /\ DOMAIN renamed = Completed \ failed
       /\ \A p \in DOMAIN renamed :
            /\ p \notin DOMAIN fs
            /\ BackupPath(p) \in DOMAIN fs
            /\ renamed[p] = [p EXCEPT !.suffix = ".webp"]
            /\ renamed[p] \in DOMAIN fs
       /\ total_before = SumBefore(DOMAIN renamed)
       /\ total_after = SumAfter(DOMAIN renamed)
  /\ pc \in {"html", "patch", "report", "done"} =>
       DOMAIN renamed = Range(images) \ failed

\* C4 witness: a run is over in which one transcode failed and another image
\* was converted
C4_Witness == pc = "done" /\ failed /= {} /\ DOMAIN renamed /= {}

\* C5 (as claimed): no error of the loop body ends the run
C5_NoPerFileErrorEndsRun == pc /= "aborted"

\* C6: a path with an excluded component is never enumerated, recorded or
\* written as markup; a file of the initial tree at such a path stays with
\* its bytes; no step removes a file at such a path, and the only step that
\* changes one is the backup copy filling the backup it created.
C6_ExcludedUntouched ==
  [][/\ \A p \in DOMAIN fs' \cup DOMAIN fs0 :
          HasExcludedComponent(p) =>
            /\ p \notin Range(images')
            /\ p \notin Range(html_files')
            /\ p \notin DOMAIN renamed'
            /\ p \notin written'
            /\ p \in DOMAIN fs0 => (p \in DOMAIN fs' /\ fs'[p] = fs0[p])
            /\ p \notin DOMAIN fs0 => p.suffix /= ".webp"
     /\ \A p \in DOMAIN fs :
          HasExcludedComponent(p) =>
            /\ p \in DOMAIN fs'
            /\ fs'[p] /= fs[p] => (pc = "copy" /\ p = BackupPath(Src))
    ]_vars

\* C6 witness: a run that converted an image and rewrote a page is over, in
\* a tree that holds images and a page under excluded directories
C6_Witness ==
  /\ pc = "done"
  /\ DOMAIN renamed /= {}
  /\ written /= {}
  /\ \E p \in DOMAIN fs : HasExcludedComponent(p) /\ p.suffix = ".jpg"
  /\ \E p \in DOMAIN fs : HasExcludedComponent(p) /\ p.suffix = ".html"

\* the text holds a quote, a non-empty body without quotes, an old extension
\* and a quote
HasQuotedOldExt(t) ==
  \E s, e \in DOMAIN t :
    /\ s + 2 <= e
    /\ e + 1 <= Len(t)
    /\ t[s] \in {DQ, SQ}
    /\ \A k \in (s + 1)..(e - 1) : t[k] \notin {DQ, SQ}
    /\ t[e] \in {".jpg", ".jpeg", ".png", ".JPG", ".JPEG", ".PNG"}
    /\ t[e + 1] \in {DQ, SQ}

\* C8: a step writes a markup file only if it changes the text of the file,
\* and only a file that holds a quoted string ending in an old extension;
\* nothing is written in a run whose rename map is empty.
C8_WriteOnlyOnChange ==
  [][/\ \A p \in written' \ written :
          /\ p \in DOMAIN fs
          /\ fs'[p] /= fs[p]
          /\ HasQuotedOldExt(fs[p])
     /\ \A p \in DOMAIN fs :
          (p.suffix = ".html" /\ p \in DOMAIN fs' /\ fs'[p] /= fs[p])
            => p \in written' \ written
     /\ DOMAIN renamed' = {} => written' = {}
    ]_vars

\* C8 witness: a run is over that rewrote one page and left another page,
\* which holds no quoted old extension, unwritten
C8_Witness ==
  /\ pc = "done"
  /\ written /= {}
  /\ \E p \in Range(html_files) : p \notin written /\ ~HasQuotedOldExt(fs[p])

\* C10 (as claimed): the destinations of different originals differ, and
\* every value of the rename map names a file holding the conversion of its
\* own key.
C10_DistinctOutputs ==
  /\ \A p, q \in DOMAIN renamed : p /= q => renamed[p] /= renamed[q]
  /\ \A p \in DOMAIN renamed :
       /\ renamed[p] \in DOMAIN fs
       /\ fs[renamed[p]] = <<9>> \o Tail(Tail(fs0[p]))

\* ------------------------------------------------------------ the rewrite alone
Tokens == {DQ, SQ, "x", ".JPG"}

Texts == UNION {[1..n -> Tokens] : n \in 0..MaxTextLen}

\* how often the substitution is applied to its own output
Passes == 3

InitRewrite ==
  /\ passes \in {<<t>> : t \in Texts}
  /\ fs = Excluded
  /\ fs0 = fs
  /\ pc = "rewrite"
  /\ run = 1
  /\ FreshLocals

\* new_text = pattern.sub(..., text), on the text the last pass gave
Rewrite ==
  /\ pc = "rewrite"
  /\ Len(passes) <= Passes
  /\ passes' = Append(passes, Sub(passes[Len(passes)]))
  /\ UNCHANGED <<fs, fs0, pc, run, Locals>>

NextRewrite == Rewrite

SpecRewrite == InitRewrite /\ [][NextRewrite]_vars

\* ------------------------------------------------------------ properties of the rewrite
OldExts == {".jpg", ".jpeg", ".png", ".JPG", ".JPEG", ".PNG"}

\* t[s..e+1] is a quote, a non-empty body without quotes, an old extension
\* at e and a quote
Shape(t, s, e) ==
  /\ s >= 1
  /\ s + 2 <= e
  /\ e + 1 <= Len(t)
  /\ t[s] \in {DQ, SQ}
  /\ \A k \in (s + 1)..(e - 1) : t[k] \notin {DQ, SQ}
  /\ t[e] \in OldExts
  /\ t[e + 1] \in {DQ, SQ}

\* C7 (as claimed): one pass changes nothing but the extension of substrings
\* made of a quote, a non-empty body without quotes, an old extension and a
\* closing quote that is the same character as the opening one; the
\* extension becomes ".webp".
C7_OnlySameQuoteShapes ==
  Len(passes) >= 2 =>
    LET t == passes[1]
        o == passes[2]
    IN  /\ Len(o) = Len(t)
        /\ \A k \in DOMAIN t :
             o[k] /= t[k] =>
               /\ o[k] = ".webp"
               /\ \E s \in 1..(k - 2) : Shape(t, s, k) /\ t[k + 1] = t[s]

\* C9 (as claimed): the output of one pass is a fixed point of the rewrite
C9_Idempotent == Len(passes) >= 3 => passes[3] = passes[2]

\* a quote of the text closes one quoted old-extension string and opens the
\* next one
Chained(t) ==
  \E s, e, f \in DOMAIN t : Shape(t, s, e) /\ Shape(t, e + 1, f)

\* C9 (amended): on a text in which no quote both closes one quoted
\* old-extension string and opens the next, the output of one pass is a
\* fixed point; on every text the output of the second pass is one.
C9_IdempotentUnchained ==
  /\ (Len(passes) >= 3 /\ ~Chained(passes[1])) => passes[3] = passes[2]
  /\ Len(passes) >= 4 => passes[4] = passes[3]

\* C9 witness: a text without chained strings that the first pass changed
\* has gone through three passes
C9_Witness ==
  /\ Len(passes) >= 4
  /\ ~Chained(passes[1])
  /\ passes[2] /= passes[1]

====
